---- MODULE Spec2Model ----
(***************************************************************************)
(* The AnaPico APSYN420 driver (APSYN420.py): the command/response         *)
(* transaction layer with its optional open-per-command connection         *)
(* management, the two mode enablers, the reference-lock polling routine   *)
(* and the on/off reply parser.                                            *)
(*                                                                         *)
(* Python strings whose characters matter (device replies, parser input)   *)
(* are sequences of one-character strings.  A command is a tuple: <<text>> *)
(* for a literal command, <<template, n>> for a '%d'-formatted one.        *)
(***************************************************************************)
EXTENDS Integers, Sequences, FiniteSets, TLC

VARIABLES
    close_after_every_command, \* constructor argument (line 21)
    address,                   \* self._address, the constructor's address
    visa_handle,               \* self.visa_handle: Null or a handle id
    ask_raw,                   \* what self.ask_raw resolves to
    write_raw,                 \* what self.write_raw resolves to
    write,                     \* what self.write resolves to
    events,                    \* transport events since construction began
    calls,                     \* history: one record per top-level call
    alive,                     \* FALSE once the driver was torn down
    pc,                        \* position inside set_external_reference
    frequency,                 \* argument of the running set_external_reference
    stat,                      \* argument of parse_on_off
    parsed,                    \* value returned by parse_on_off
    parse_pc                   \* "call" before parse_on_off ran, "done" after

vars == <<close_after_every_command, address, visa_handle, ask_raw, write_raw,
          write, events, calls, alive, pc, frequency, stat, parsed, parse_pc>>

driverVars == <<close_after_every_command, address, visa_handle, ask_raw,
                write_raw, write, events, calls, alive, pc, frequency>>

parseVars == <<stat, parsed, parse_pc>>

-----------------------------------------------------------------------------
(* Bounds *)

MaxCalls == 3      \* top-level calls per behaviour
MaxLen == 3        \* longest parse_on_off input

-----------------------------------------------------------------------------
(* Inputs *)

Null == 0          \* Python None in self.visa_handle

Addrs == {"A"}
SendCmds == {<<"OUTP 1">>}
QueryCmds == {<<"OUTP?">>, <<"FREQ?">>}
RetCodes == {0, -1}                       \* status returned by visa write
QueryReplies == {<<"1", "\n">>}           \* replies to a plain query
LockReplies ==
    {<<"1", "\r", "\n">>, <<"+", "1">>, <<"0">>, <<"-", "1">>, <<"x">>}
Freqs == {105, -105}                      \* frequency argument, in tenths of Hz
Chars == {"0", "1", "3", " ", "x"}
\* The characters str.strip() removes from a reply.  Replies are ASCII (the
\* transport decodes them as ASCII); the ASCII characters with isspace() are
\* 0x09-0x0d, 0x1c-0x1f and 0x20.  Those without a string escape are written
\* by their code point.
Whitespace ==
    {"\t", "\n", "U+000B", "\f", "\r", "U+001C", "U+001D", "U+001E", "U+001F",
     " "}
Digits == <<"0", "1", "2", "3", "4", "5", "6", "7", "8", "9">>

Strs == UNION {[1..n -> Chars] : n \in 0..MaxLen}

-----------------------------------------------------------------------------
(* Transport events *)

OpenEv(addr, h) == [type |-> "open", h |-> h, arg |-> <<addr>>]
WriteEv(h, cmd) == [type |-> "write", h |-> h, arg |-> cmd]
QueryEv(h, cmd) == [type |-> "query", h |-> h, arg |-> cmd]
CloseEv(h) == [type |-> "close", h |-> h, arg |-> <<>>]

Count(evs, t) == Cardinality({i \in DOMAIN evs : evs[i].type = t})

\* visa.ResourceManager().open_resource(address): a handle never seen before
open_resource(evs) == Count(evs, "open") + 1

\* Outcome of one low-level routine
Outcome(h, evs, raised, code, value, routine) ==
    [handle |-> h, evs |-> evs, raised |-> raised, code |-> code,
     value |-> value, routine |-> routine]

-----------------------------------------------------------------------------
(* Base class (VisaInstrument / Instrument) *)

\* VisaInstrument.check_error: a non-zero status is raised as VisaIOError
check_error(ret_code) == IF ret_code # 0 THEN "VisaIOError" ELSE "none"

\* VisaInstrument.write_raw: write on the open handle, then check_error
VisaInstrument_write_raw(h, newh, addr, cmd, ret) ==
    IF h = Null
    THEN Outcome(h, <<>>, "AttributeError", 0, <<>>, "VisaInstrument.write_raw")
    ELSE Outcome(h, <<WriteEv(h, cmd)>>, check_error(ret),
                 IF check_error(ret) = "none" THEN 0 ELSE ret, <<>>,
                 "VisaInstrument.write_raw")

\* VisaInstrument.ask_raw: query on the open handle
VisaInstrument_ask_raw(h, newh, addr, cmd, reply) ==
    IF h = Null
    THEN Outcome(h, <<>>, "AttributeError", 0, <<>>, "VisaInstrument.ask_raw")
    ELSE Outcome(h, <<QueryEv(h, cmd)>>, "none", 0, reply,
                 "VisaInstrument.ask_raw")

\* A plain function stored on the instance is not bound: calling it with the
\* command alone leaves its second positional argument missing
Unbound(h) == Outcome(h, <<>>, "TypeError", 0, <<>>, "none")

-----------------------------------------------------------------------------
(* APSYN420 *)

\* write_raw_close (lines 71-87)
write_raw_close(h, newh, addr, cmd, ret) ==
    LET h1 == IF h = Null THEN newh ELSE h
        opened == IF h = Null THEN <<OpenEv(addr, h1)>> ELSE <<>>
    IN  IF check_error(ret) # "none"
        THEN Outcome(h1, opened \o <<WriteEv(h1, cmd)>>, check_error(ret), ret,
                     <<>>, "write_raw_close")
        ELSE Outcome(Null, opened \o <<WriteEv(h1, cmd), CloseEv(h1)>>, "none",
                     0, <<>>, "write_raw_close")

\* ask_raw_close with the statements after its return executed
ask_raw_close_closing(h, newh, addr, cmd, reply) ==
    LET h1 == IF h = Null THEN newh ELSE h
        opened == IF h = Null THEN <<OpenEv(addr, h1)>> ELSE <<>>
    IN  Outcome(Null, opened \o <<QueryEv(h1, cmd), CloseEv(h1)>>, "none", 0,
                reply, "ask_raw_close")

\* ask_raw_close (lines 89-107): returns at line 104, before the close
ask_raw_close(h, newh, addr, cmd, reply) ==
    LET h1 == IF h = Null THEN newh ELSE h
        opened == IF h = Null THEN <<OpenEv(addr, h1)>> ELSE <<>>
    IN  Outcome(h1, opened \o <<QueryEv(h1, cmd)>>, "none", 0, reply,
                "ask_raw_close")

\* Attribute values
ClassMethod == "class"            \* not in the instance dict: the class's method
BoundClose == "close"             \* bound write_raw_close / ask_raw_close
UnboundBase == "unbound"          \* VisaInstrument.ask_raw / .write_raw, unbound

Bindings(a, wr, w) == [ask_raw |-> a, write_raw |-> wr, write |-> w]

\* close_after (lines 109-111)
close_after(b) ==
    [b EXCEPT !.ask_raw = BoundClose, !.write_raw = BoundClose]

\* dont_close_after (lines 113-115): assigns self.ask_raw and self.write
dont_close_after(b) ==
    [b EXCEPT !.ask_raw = UnboundBase, !.write = UnboundBase]

\* self.write_raw(cmd)
call_write_raw(b, h, newh, addr, cmd, ret) ==
    IF b.write_raw = BoundClose
    THEN write_raw_close(h, newh, addr, cmd, ret)
    ELSE VisaInstrument_write_raw(h, newh, addr, cmd, ret)

\* self.ask_raw(cmd)
call_ask_raw(b, h, newh, addr, cmd, reply) ==
    CASE b.ask_raw = BoundClose -> ask_raw_close(h, newh, addr, cmd, reply)
      [] b.ask_raw = ClassMethod ->
            VisaInstrument_ask_raw(h, newh, addr, cmd, reply)
      [] OTHER -> Unbound(h)

\* self.write(cmd): Instrument.write calls self.write_raw and re-raises
call_write(b, h, newh, addr, cmd, ret) ==
    IF b.write = ClassMethod
    THEN call_write_raw(b, h, newh, addr, cmd, ret)
    ELSE Unbound(h)

\* self.ask(cmd): Instrument.ask calls self.ask_raw and re-raises
call_ask(b, h, newh, addr, cmd, reply) ==
    call_ask_raw(b, h, newh, addr, cmd, reply)

\* the constructor takes its closing branch (line 28), as if the flag were
\* ignored
init_closes_always(flag) == TRUE

\* the constructor takes its closing branch (line 28)
init_closes(flag) == flag

\* __init__ (lines 21-31): the state the constructor leaves
Construct(flag, addr) ==
    LET h == open_resource(<<>>)
        base == <<OpenEv(addr, h), QueryEv(h, <<"FREQ?">>)>>
    IN  IF init_closes(flag)
        THEN [handle |-> Null, evs |-> base \o <<CloseEv(h)>>,
              b |-> close_after(Bindings(ClassMethod, ClassMethod, ClassMethod))]
        ELSE [handle |-> h, evs |-> base,
              b |-> Bindings(ClassMethod, ClassMethod, ClassMethod)]

\* parse_on_off (lines 117-122)
startswith(s, c) == Len(s) >= 1 /\ s[1] = c

\* parse_on_off comparing the whole reply instead of its first character
parse_on_off_exact(s) ==
    IF s = <<"0">> THEN <<"o", "f", "f">>
    ELSE IF s = <<"1">> THEN <<"o", "n">>
    ELSE s

parse_on_off(s) ==
    IF startswith(s, "0") THEN <<"o", "f", "f">>
    ELSE IF startswith(s, "1") THEN <<"o", "n">>
    ELSE s

-----------------------------------------------------------------------------
(* Reply parsing of the lock poll: int(reply.strip()) *)

RECURSIVE lstrip(_)
lstrip(s) == IF s # <<>> /\ Head(s) \in Whitespace THEN lstrip(Tail(s)) ELSE s

RECURSIVE rstrip(_)
rstrip(s) ==
    IF s # <<>> /\ s[Len(s)] \in Whitespace
    THEN rstrip(SubSeq(s, 1, Len(s) - 1)) ELSE s

strip(s) == rstrip(lstrip(s))

DigitVal(c) == (CHOOSE i \in DOMAIN Digits : Digits[i] = c) - 1
IsDigit(c) == \E i \in DOMAIN Digits : Digits[i] = c

RECURSIVE DecVal(_)
DecVal(s) == IF s = <<>> THEN 0
             ELSE 10 * DecVal(SubSeq(s, 1, Len(s) - 1)) + DigitVal(s[Len(s)])

\* the digits of a literal, its underscores dropped
RECURSIVE DropUnderscores(_)
DropUnderscores(s) ==
    IF s = <<>> THEN <<>>
    ELSE IF Head(s) = "_" THEN DropUnderscores(Tail(s))
    ELSE <<Head(s)>> \o DropUnderscores(Tail(s))

\* digits, with single underscores allowed between two digits
IsDigitString(s) ==
    /\ s # <<>>
    /\ \A i \in DOMAIN s : IsDigit(s[i]) \/ s[i] = "_"
    /\ IsDigit(s[1]) /\ IsDigit(s[Len(s)])
    /\ \A i \in 1..(Len(s) - 1) : ~(s[i] = "_" /\ s[i + 1] = "_")

\* The ASCII characters int() skips around a literal: 0x09-0x0d and 0x20, a
\* smaller set than str.strip() removes (0x1c-0x1f are not skipped)
IntSpace == {"\t", "\n", "U+000B", "\f", "\r", " "}

RECURSIVE SkipLeft(_)
SkipLeft(s) == IF s # <<>> /\ Head(s) \in IntSpace THEN SkipLeft(Tail(s)) ELSE s

RECURSIVE SkipRight(_)
SkipRight(s) ==
    IF s # <<>> /\ s[Len(s)] \in IntSpace
    THEN SkipRight(SubSeq(s, 1, Len(s) - 1)) ELSE s

\* int(s) of an ASCII string: surrounding blanks, an optional sign, then the
\* digits; ok is FALSE where Python raises ValueError
int(s) ==
    LET t == SkipRight(SkipLeft(s))
        signed == t # <<>> /\ t[1] \in {"+", "-"}
        body == IF signed THEN Tail(t) ELSE t
        mag == DecVal(DropUnderscores(body))
    IN  IF IsDigitString(body)
        THEN [ok |-> TRUE,
              val |-> IF signed /\ t[1] = "-" THEN 0 - mag ELSE mag]
        ELSE [ok |-> FALSE, val |-> 0]

\* '%d' % frequency: the integer part, truncated toward zero (frequency is
\* kept in tenths)
FmtD(f) == IF f >= 0 THEN f \div 10 ELSE 0 - ((0 - f) \div 10)

-----------------------------------------------------------------------------
(* State machine *)

Cur == Bindings(ask_raw, write_raw, write)

CallRec(op, arg, ret, r) ==
    [op |-> op, arg |-> arg, ret |-> ret, h0 |-> visa_handle, b0 |-> Cur,
     routine |-> r.routine, opens |-> Count(r.evs, "open"),
     closes |-> Count(r.evs, "close"), raised |-> r.raised, code |-> r.code,
     value |-> r.value, evs |-> r.evs]

Idle == alive /\ pc = "idle" /\ Len(calls) < MaxCalls

Record(op, arg, ret, r) ==
    /\ visa_handle' = r.handle
    /\ events' = events \o r.evs
    /\ calls' = Append(calls, CallRec(op, arg, ret, r))

Init ==
    /\ close_after_every_command \in BOOLEAN
    /\ address \in Addrs
    /\ LET c == Construct(close_after_every_command, address)
       IN  /\ visa_handle = c.handle
           /\ events = c.evs
           /\ ask_raw = c.b.ask_raw
           /\ write_raw = c.b.write_raw
           /\ write = c.b.write
    /\ calls = <<>>
    /\ alive = TRUE
    /\ pc = "idle"
    /\ frequency = 0
    /\ stat = <<>>
    /\ parsed = <<>>
    /\ parse_pc = "done"

\* instrument.write(cmd)
Write ==
    /\ Idle
    /\ \E cmd \in SendCmds, ret \in RetCodes :
         Record("write", cmd, ret,
                call_write(Cur, visa_handle, open_resource(events), address,
                           cmd, ret))
    /\ UNCHANGED <<close_after_every_command, address, ask_raw, write_raw,
                   write, alive, pc, frequency, parseVars>>

\* instrument.write_raw(cmd)
WriteRaw ==
    /\ Idle
    /\ \E cmd \in SendCmds, ret \in RetCodes :
         Record("write_raw", cmd, ret,
                call_write_raw(Cur, visa_handle, open_resource(events),
                               address, cmd, ret))
    /\ UNCHANGED <<close_after_every_command, address, ask_raw, write_raw,
                   write, alive, pc, frequency, parseVars>>

\* instrument.ask(cmd)
Ask ==
    /\ Idle
    /\ \E cmd \in QueryCmds, reply \in QueryReplies :
         Record("ask", cmd, 0,
                call_ask(Cur, visa_handle, open_resource(events), address,
                         cmd, reply))
    /\ UNCHANGED <<close_after_every_command, address, ask_raw, write_raw,
                   write, alive, pc, frequency, parseVars>>

\* instrument.ask_raw(cmd)
AskRaw ==
    /\ Idle
    /\ \E cmd \in QueryCmds, reply \in QueryReplies :
         Record("ask_raw", cmd, 0,
                call_ask_raw(Cur, visa_handle, open_resource(events), address,
                             cmd, reply))
    /\ UNCHANGED <<close_after_every_command, address, ask_raw, write_raw,
                   write, alive, pc, frequency, parseVars>>

Rebind(op, b) ==
    /\ ask_raw' = b.ask_raw
    /\ write_raw' = b.write_raw
    /\ write' = b.write
    /\ calls' = Append(calls, CallRec(op, <<>>, 0,
                                      Outcome(visa_handle, <<>>, "none", 0,
                                              <<>>, "none")))
    /\ UNCHANGED <<close_after_every_command, address, visa_handle, events,
                   alive, pc, frequency, parseVars>>

\* instrument.close_after()
CloseAfter == Idle /\ Rebind("close_after", close_after(Cur))

\* instrument.dont_close_after()
DontCloseAfter == Idle /\ Rebind("dont_close_after", dont_close_after(Cur))

\* instrument.close(): teardown releases the handle if one is held
Teardown ==
    /\ Idle
    /\ alive' = FALSE
    /\ Record("close", <<>>, 0,
              Outcome(Null,
                      IF visa_handle # Null THEN <<CloseEv(visa_handle)>>
                      ELSE <<>>,
                      "none", 0, <<>>, "VisaInstrument.close"))
    /\ UNCHANGED <<close_after_every_command, address, ask_raw, write_raw,
                   write, pc, frequency, parseVars>>

\* The command set_external_reference writes at each position
SerCmd(p, f) ==
    CASE p = "w1" -> <<"ROSC:SOUR EXT">>
      [] p = "w2" -> <<"ROSC:EXT:FREQ %d", FmtD(f)>>
      [] p = "w3" -> <<"ROSC:OUTP:STATE 1">>
      [] p = "w4" -> <<"ROSC:OUTP:FREQ %d", FmtD(f)>>

SerNext(p) ==
    CASE p = "w1" -> "w2" [] p = "w2" -> "w3" [] p = "w3" -> "w4"
      [] p = "w4" -> "poll"

LockCmd == <<"ROSC:LOCK?">>

\* One more low-level call made by the running set_external_reference
SerRecord(r, raised) ==
    /\ visa_handle' = r.handle
    /\ events' = events \o r.evs
    /\ calls' = [calls EXCEPT ![Len(calls)] =
                   [@ EXCEPT !.routine = r.routine,
                             !.opens = @ + Count(r.evs, "open"),
                             !.closes = @ + Count(r.evs, "close"),
                             !.raised = raised, !.code = r.code,
                             !.value = r.value, !.evs = @ \o r.evs]]

\* instrument.set_external_reference(frequency) is called (line 127)
SerStart ==
    /\ Idle
    /\ \E f \in Freqs :
         /\ frequency' = f
         /\ calls' = Append(calls,
                CallRec("set_external_reference", <<"%d", FmtD(f)>>, 0,
                        Outcome(visa_handle, <<>>, "running", 0, <<>>, "none")))
    /\ pc' = "w1"
    /\ UNCHANGED <<close_after_every_command, address, visa_handle, ask_raw,
                   write_raw, write, events, alive, parseVars>>

\* one of the four self.write calls (lines 132-135)
SerWrite ==
    /\ pc \in {"w1", "w2", "w3", "w4"}
    /\ \E ret \in RetCodes :
         LET r == call_write(Cur, visa_handle, open_resource(events), address,
                             SerCmd(pc, frequency), ret)
         IN  IF r.raised # "none"
             THEN SerRecord(r, r.raised) /\ pc' = "idle"
             ELSE SerRecord(r, "running") /\ pc' = SerNext(pc)
    /\ UNCHANGED <<close_after_every_command, address, ask_raw, write_raw,
                   write, alive, frequency, parseVars>>

\* the loop condition int(self.ask('ROSC:LOCK?').strip()) != 1 (line 137)
SerPoll ==
    /\ pc = "poll"
    /\ \E reply \in LockReplies :
         LET r == call_ask(Cur, visa_handle, open_resource(events), address,
                           LockCmd, reply)
             n == int(strip(r.value))
         IN  IF r.raised # "none"
             THEN SerRecord(r, r.raised) /\ pc' = "idle"
             ELSE IF ~n.ok
             THEN SerRecord(r, "ValueError") /\ pc' = "idle"
             ELSE IF n.val # 1
             THEN SerRecord(r, "running") /\ pc' = "sleep"
             ELSE SerRecord(r, "none") /\ pc' = "idle"
    /\ UNCHANGED <<close_after_every_command, address, ask_raw, write_raw,
                   write, alive, frequency, parseVars>>

\* the loop body (lines 138-139): print, then qt.msleep(1); the module
\* binds no name qt, so evaluating it raises NameError
SerSleep ==
    /\ pc = "sleep"
    /\ pc' = "idle"
    /\ calls' = [calls EXCEPT ![Len(calls)].raised = "NameError"]
    /\ UNCHANGED <<close_after_every_command, address, visa_handle, ask_raw,
                   write_raw, write, events, alive, frequency, parseVars>>

Next ==
    \/ Ask
    \/ AskRaw
    \/ Write
    \/ WriteRaw
    \/ CloseAfter
    \/ DontCloseAfter
    \/ Teardown
    \/ SerStart
    \/ SerWrite
    \/ SerPoll
    \/ SerSleep

Spec == Init /\ [][Next]_vars

-----------------------------------------------------------------------------
(* parse_on_off applied to every bounded input *)

InitParse ==
    /\ close_after_every_command = TRUE
    /\ address = "A"
    /\ LET c == Construct(TRUE, "A")
       IN  /\ visa_handle = c.handle
           /\ events = c.evs
           /\ ask_raw = c.b.ask_raw
           /\ write_raw = c.b.write_raw
           /\ write = c.b.write
    /\ calls = <<>>
    /\ alive = TRUE
    /\ pc = "idle"
    /\ frequency = 0
    /\ stat \in Strs
    /\ parsed = <<>>
    /\ parse_pc = "call"

\* get_parser=self.parse_on_off applied to a reply
ParseOnOff ==
    /\ parse_pc = "call"
    /\ parsed' = parse_on_off(stat)
    /\ parse_pc' = "done"
    /\ UNCHANGED <<stat, driverVars>>

NextParse == ParseOnOff

SpecParse == InitParse /\ [][NextParse]_vars

-----------------------------------------------------------------------------
(* Vocabulary of the properties *)

SendOps == {"write", "write_raw"}
QueryOps == {"ask", "ask_raw"}
Enablers == {"close_after", "dont_close_after"}
SER == "set_external_reference"

Last == calls[Len(calls)]

\* every call so far was a send or a query
OnlySendQuery == \A i \in DOMAIN calls : calls[i].op \in SendOps \cup QueryOps

\* the driver was constructed in PerCommand mode and only sent and queried
PerCommandRun == close_after_every_command /\ OnlySendQuery /\ calls # <<>>

\* bindings in force after call i
BindingsAfter(i) == IF i = Len(calls) THEN Cur ELSE calls[i + 1].b0

\* the mode selected before call i: by the latest enabler, else the constructor
ModeBefore(i) ==
    LET prev == {j \in 1..(i - 1) : calls[j].op \in Enablers}
    IN  IF prev = {}
        THEN IF close_after_every_command THEN "close_after"
             ELSE "dont_close_after"
        ELSE calls[CHOOSE j \in prev : \A k \in prev : k <= j].op

\* the write and query events of a call, in order
RECURSIVE Traffic(_)
Traffic(evs) ==
    IF evs = <<>> THEN <<>>
    ELSE IF Head(evs).type \in {"write", "query"}
    THEN <<[type |-> Head(evs).type, arg |-> Head(evs).arg]>> \o Traffic(Tail(evs))
    ELSE Traffic(Tail(evs))

-----------------------------------------------------------------------------
(* Properties *)

\* C1: in PerCommand mode, after any sequence of send and query calls, when
\* the last call has returned or raised the handle field is null (the
\* connection is closed).
C1_HandleClosedBetweenCalls == PerCommandRun => visa_handle = Null

\* C2: every send in PerCommand mode performs exactly one open and one close
\* and leaves the handle closed, also when the write reports an error code;
\* in that case it raises the failure carrying the code after a single write.
C2_SendOpensAndClosesOnce ==
    (PerCommandRun /\ Last.op \in SendOps) =>
        /\ Last.opens = 1
        /\ Last.closes = 1
        /\ visa_handle = Null
        /\ Count(Last.evs, "write") = 1
        /\ Last.ret # 0 => Last.raised = "VisaIOError" /\ Last.code = Last.ret

\* C3 as stated: every query in PerCommand mode, whatever preceded it, opens
\* the handle exactly once and never closes it, so the handle is open after.
C3_QueryOpensOnce ==
    (PerCommandRun /\ Last.op \in QueryOps) =>
        Last.opens = 1 /\ Last.closes = 0 /\ visa_handle # Null

\* C3 amended: every query that runs the PerCommand routine opens the handle
\* exactly once if the handle field was null when the call started and not at
\* all otherwise, never closes it, queries on that handle, and leaves the
\* handle field non-null.
C3_QueryOpensIfNull ==
    \A i \in DOMAIN calls :
        (calls[i].op \in QueryOps /\ calls[i].routine = "ask_raw_close") =>
            LET c == calls[i]
                h == IF c.h0 = Null THEN c.evs[1].h ELSE c.h0
            IN  /\ c.opens = (IF c.h0 = Null THEN 1 ELSE 0)
                /\ c.closes = 0
                /\ c.raised = "none"
                /\ c.evs[Len(c.evs)] = QueryEv(h, c.arg)
                /\ c.h0 = Null => c.evs[1] = OpenEv(address, h)
                /\ i = Len(calls) => visa_handle = h /\ h # Null

\* C3 witness: a query ran the PerCommand routine while a handle was held
C3_Witness ==
    /\ calls # <<>>
    /\ Last.op \in QueryOps
    /\ Last.routine = "ask_raw_close"
    /\ Last.h0 # Null
    /\ Last.opens = 0

\* C4: constructed in PerCommand mode with address A, send(c1) immediately
\* followed by query(c2) produces exactly open(A), write(c1), close, open(A)
\* on a new handle, write+read(c2), and no close after the query.
C4_SendThenQuerySequence ==
    (/\ close_after_every_command
     /\ Len(calls) = 2
     /\ calls[1].op \in SendOps
     /\ calls[2].op \in QueryOps) =>
        calls[1].evs \o calls[2].evs =
            <<OpenEv(address, 2), WriteEv(2, calls[1].arg), CloseEv(2),
              OpenEv(address, 3), QueryEv(3, calls[2].arg)>>

\* C5: in Persistent mode the handle is opened exactly once, at construction,
\* and closed exactly once, at teardown; no send or query opens or closes it,
\* and the handle field is non-null from construction until teardown.
C5_PersistentHandle ==
    (/\ ~close_after_every_command
     /\ \A i \in DOMAIN calls : calls[i].op \notin Enablers) =>
        /\ events[1] = OpenEv(address, 1)
        /\ Count(events, "open") = 1
        /\ Count(events, "close") = (IF alive THEN 0 ELSE 1)
        /\ alive => visa_handle = 1
        /\ ~alive => events[Len(events)] = CloseEv(1)
        /\ \A i \in DOMAIN calls :
              calls[i].op # "close" =>
                  /\ calls[i].opens = 0
                  /\ calls[i].closes = 0
                  /\ \A k \in DOMAIN calls[i].evs : calls[i].evs[k].h = 1

\* C5 witness: a Persistent driver sent, queried and was torn down
C5_Witness ==
    /\ ~close_after_every_command
    /\ ~alive
    /\ Len(calls) = 3
    /\ calls[1].op \in SendOps /\ calls[1].evs # <<>>
    /\ calls[2].op \in QueryOps /\ calls[2].evs # <<>>

\* C6: after dont_close_after on a driver in PerCommand mode, every later
\* send and query runs the base routine and none runs the PerCommand routine.
C6_BaseRoutinesAfterDontCloseAfter ==
    \A i \in DOMAIN calls :
        (/\ close_after_every_command
         /\ calls[i].op \in SendOps \cup QueryOps
         /\ ModeBefore(i) = "dont_close_after") =>
            calls[i].routine \in {"VisaInstrument.write_raw",
                                  "VisaInstrument.ask_raw"}

\* C7: both enablers are idempotent (a second consecutive call of the same
\* enabler leaves bindings and handle as the first left them), and calling
\* the enabler of the mode already active changes nothing.
C7_EnablersIdempotent ==
    \A i \in DOMAIN calls :
        calls[i].op \in Enablers =>
            /\ (i > 1 /\ calls[i - 1].op = calls[i].op) =>
                   BindingsAfter(i) = calls[i].b0
            /\ ModeBefore(i) = calls[i].op => BindingsAfter(i) = calls[i].b0
            /\ calls[i].evs = <<>>

\* C8: set_external_reference issues its four configuration writes in order
\* before any ROSC:LOCK? query, returns only after a reply that parses to 1,
\* and a reply that parses to another integer always leads to another poll.
C8_Invariant ==
    (calls # <<>> /\ Last.op = SER) =>
        LET t == Traffic(Last.evs)
            f == Last.arg[2]
        IN  /\ (\E k \in DOMAIN t : t[k].type = "query") =>
                  /\ Len(t) >= 5
                  /\ SubSeq(t, 1, 4) =
                       <<[type |-> "write", arg |-> <<"ROSC:SOUR EXT">>],
                         [type |-> "write", arg |-> <<"ROSC:EXT:FREQ %d", f>>],
                         [type |-> "write", arg |-> <<"ROSC:OUTP:STATE 1">>],
                         [type |-> "write", arg |-> <<"ROSC:OUTP:FREQ %d", f>>]>>
                  /\ \A k \in 5..Len(t) :
                        t[k] = [type |-> "query", arg |-> <<"ROSC:LOCK?">>]
            /\ (pc = "idle" /\ Last.raised = "none") =>
                  int(strip(Last.value)) = [ok |-> TRUE, val |-> 1]

\* C8: the invariant above in every state, and every poll whose reply parses
\* to an integer other than 1 (position "sleep") is followed by another poll.
C8_LockPolling ==
    /\ []C8_Invariant
    /\ [][pc = "sleep" => pc' = "poll"]_vars

\* C9: parse_on_off returns 'off' for every input starting with '0', 'on'
\* for every input starting with '1', and the input unchanged otherwise,
\* the empty string included.
C9_ParseOnOff ==
    parse_pc = "done" =>
        /\ (stat # <<>> /\ stat[1] = "0") => parsed = <<"o", "f", "f">>
        /\ (stat # <<>> /\ stat[1] = "1") => parsed = <<"o", "n">>
        /\ (stat = <<>> \/ stat[1] \notin {"0", "1"}) => parsed = stat

\* C9 witness: an input with an unrecognised prefix was passed through
C9_Witness ==
    parse_pc = "done" /\ stat = <<"3", " ", "x">> /\ parsed = <<"3", " ", "x">>

\* C10, first part: at most one connection is open at a time, the handle
\* field is null exactly when none is open, and a PerCommand send or query
\* opens a connection only when the handle field is null.
C10_OneConnection ==
    LET open == Count(events, "open") - Count(events, "close")
    IN  /\ open \in {0, 1}
        /\ visa_handle = Null <=> open = 0
        /\ \A i \in DOMAIN calls :
              calls[i].routine \in {"write_raw_close", "ask_raw_close"}
                  /\ calls[i].op # SER =>
                      calls[i].opens = (IF calls[i].h0 = Null THEN 1 ELSE 0)

\* C10: the first part, and a send that follows a query reuses the
\* connection the query left open and then closes it.
C10_SendAfterQueryCloses ==
    /\ C10_OneConnection
    /\ \A i \in DOMAIN calls :
          (/\ i > 1
           /\ calls[i - 1].op \in QueryOps
           /\ calls[i - 1].routine = "ask_raw_close"
           /\ calls[i].op \in SendOps
           /\ calls[i].routine = "write_raw_close") =>
              /\ calls[i].opens = 0
              /\ calls[i].evs[1] = WriteEv(calls[i].h0, calls[i].arg)
              /\ calls[i].closes = 1
              /\ calls[i].evs[Len(calls[i].evs)] = CloseEv(calls[i].h0)

====
